---- MODULE Spec2Model ----
(***************************************************************************)
(* A model of tinytui (src/src/lib.rs): the tiling layout of Rectangles,   *)
(* the Terminal's cell buffer and its flush, the Text, ItemList and Table  *)
(* widgets, and the HardwrappingText line iterator.                        *)
(*                                                                         *)
(* Conventions.                                                            *)
(*  - A Vec or slice is a sequence; Rust's index i is the model's i + 1.   *)
(*  - An Option is a sequence of length 0 (None) or 1 (Some(v)).           *)
(*  - A char is a one-character string; "\n" is the line break.            *)
(*  - An f32 strictly positive value is [m |-> m, k |-> k], meaning        *)
(*    m / 2^k; F32Mul rounds as IEEE-754 binary32 does.                    *)
(*  - A usize keeps its wrap-around: a value that a release build wraps is *)
(*    [hi |-> h, lo |-> l], meaning (h * 2^63 + l) mod 2^64; a debug build *)
(*    panics where a release build wraps (overflow_checks).                *)
(***************************************************************************)
EXTENDS Integers, Sequences, FiniteSets, TLC

VARIABLES
    overflow_checks, \* the build: TRUE = debug (overflow panics, debug_assert on)
    terminal,        \* Terminal: [width, height, buffer]
    regions,         \* the Rectangles the caller owns, not yet split or turned into a widget
    widgets,         \* the widgets the caller owns
    output,          \* what Terminal::draw printed last, as a sequence of tokens
    status,          \* "running", or "panic" once an assertion, overflow or index check failed
    ret,             \* the last call that returned or changed more than a field: its name,
                     \* its receiver and arguments, what it returned
    hw,              \* a HardwrappingText iterator: [text, width]
    source,          \* the slice the iterator was built over
    lines            \* the items the iterator has yielded so far

vars == <<overflow_checks, terminal, regions, widgets, output, status, ret, hw, source, lines>>

----------------------------------------------------------------------------
(* Bounds of the model *)

\* widest and tallest terminal of the layout specification
MaxWidth == 4
MaxHeight == 3
\* most Rectangles the caller holds at once
MaxRegions == 3
\* longest text, widest target width and most yielded lines of the iterator specification
MaxTextLen == 4
MaxWrapWidth == 3
MaxLines == 5
\* most widgets the caller holds at once
MaxWidgets == 2
\* largest row index a caller selects
MaxSelected == 2
\* bits of a usize in the model: 2^UsizeBits plays the part of 2^64, far above
\* every length and coordinate the model reaches, so wrapped values behave alike
UsizeBits == 16

----------------------------------------------------------------------------
(* Values *)

None == <<>>
Some(v) == <<v>>

RECURSIVE Pow2(_)
Pow2(n) == IF n = 0 THEN 1 ELSE 2 * Pow2(n - 1)

\* number of bits of a natural number
RECURSIVE BitLen(_)
BitLen(n) == IF n = 0 THEN 0 ELSE 1 + BitLen(n \div 2)

Min(a, b) == IF a <= b THEN a ELSE b

RECURSIVE SumSeq(_)
SumSeq(s) == IF s = <<>> THEN 0 ELSE Head(s) + SumSeq(Tail(s))

\* width of the f32 significand
F32Bits == 24

\* `w as f32 * f` for a usize w below 2^7 (exact as f32) and an f32 f = m / 2^k:
\* the exact product w * m is rounded to 24 significant bits, ties to even.
\* The result is the numerator over the same 2^k.
F32Mul(w, f) ==
    LET p == w * f.m
        s == BitLen(p) - F32Bits
    IN  IF s <= 0 THEN p
        ELSE LET unit == Pow2(s)
                 q == p \div unit
                 r == p % unit
                 up == (2 * r > unit) \/ (2 * r = unit /\ q % 2 = 1)
             IN  (IF up THEN q + 1 ELSE q) * unit

\* `(w as f32 * f) as usize`: the cast truncates toward zero
F32MulAsUsize(w, f) == F32Mul(w, f) \div Pow2(f.k)

\* percentage > 0.0 && percentage < 1.0
InOpenUnit(f) == f.m > 0 /\ f.m < Pow2(f.k)

\* f32 values a caller passes as a percentage
Half == [m |-> 1, k |-> 1]                      \* 0.5
F07 == [m |-> 11744051, k |-> 24]                \* 0.7f32
F03 == [m |-> 10066330, k |-> 25]                \* 0.3f32
F01 == [m |-> 13421773, k |-> 27]                \* 0.1f32
FAlmostOne == [m |-> 16777215, k |-> 24]         \* 0.99999994f32, the largest f32 below 1
FTiny == [m |-> 1, k |-> 30]                     \* 2^-30
FOne == [m |-> 1, k |-> 0]                       \* 1.0: rejected by the assertion
Percentages == {Half, F07, F03, F01, FAlmostOne, FTiny, FOne}

Colors == {"Black", "Cyan", "Default", "Green"}

DefaultCell == [character |-> " ", foreground_color |-> "Default", background_color |-> "Default"]

----------------------------------------------------------------------------
(* Rectangle *)

Rectangle_new(title, x, y, width, height) ==
    [title |-> title, x |-> x, y |-> y, width |-> width, height |-> height,
     border_color |-> "Default"]

\* Terminal::area
Terminal_area(t) == Rectangle_new(None, 0, 0, t.width, t.height)

\* split_horizontally_at giving the right half the whole width
split_horizontally_at_full_right(self, percentage) ==
    LET left_width == F32MulAsUsize(self.width, percentage)
    IN  << [title |-> None, x |-> self.x, y |-> self.y,
            width |-> left_width, height |-> self.height,
            border_color |-> self.border_color],
           [title |-> None, x |-> self.x + left_width, y |-> self.y,
            width |-> self.width, height |-> self.height,
            border_color |-> self.border_color] >>

\* the pair split_horizontally_at returns (after its assertion passed)
split_horizontally_at(self, percentage) ==
    LET left_width == F32MulAsUsize(self.width, percentage)
        right_width == self.width - left_width
    IN  << [title |-> None, x |-> self.x, y |-> self.y,
            width |-> left_width, height |-> self.height,
            border_color |-> self.border_color],
           [title |-> None, x |-> self.x + left_width, y |-> self.y,
            width |-> right_width, height |-> self.height,
            border_color |-> self.border_color] >>

\* split_vertically_at leaving the bottom half at the top's y
split_vertically_at_same_y(self, percentage) ==
    LET top_height == F32MulAsUsize(self.height, percentage)
        bottom_height == self.height - top_height
    IN  << [title |-> None, x |-> self.x, y |-> self.y,
            width |-> self.width, height |-> top_height,
            border_color |-> self.border_color],
           [title |-> None, x |-> self.x, y |-> self.y,
            width |-> self.width, height |-> bottom_height,
            border_color |-> self.border_color] >>

\* the pair split_vertically_at returns (after its assertion passed)
split_vertically_at(self, percentage) ==
    LET top_height == F32MulAsUsize(self.height, percentage)
        bottom_height == self.height - top_height
    IN  << [title |-> None, x |-> self.x, y |-> self.y,
            width |-> self.width, height |-> top_height,
            border_color |-> self.border_color],
           [title |-> None, x |-> self.x, y |-> self.y + top_height,
            width |-> self.width, height |-> bottom_height,
            border_color |-> self.border_color] >>

\* the sequence s with its i-th element replaced by the elements of pair
ReplaceAt(s, i, pair) == SubSeq(s, 1, i - 1) \o pair \o SubSeq(s, i + 1, Len(s))

RemoveAt(s, i) == SubSeq(s, 1, i - 1) \o SubSeq(s, i + 1, Len(s))

\* A split consumes regions[i]; the assertion on the percentage panics otherwise.
Split(i, op, percentage, pair) ==
    /\ status = "running"
    /\ i \in 1..Len(regions)
    /\ Len(regions) + Len(widgets) < MaxRegions
    /\ IF InOpenUnit(percentage)
       THEN /\ regions' = ReplaceAt(regions, i, pair)
            /\ ret' = [op |-> op, self |-> regions[i], percentage |-> percentage,
                       first |-> pair[1], second |-> pair[2]]
            /\ status' = status
       ELSE /\ regions' = RemoveAt(regions, i)
            /\ ret' = [op |-> "panic"]
            /\ status' = "panic"
    /\ UNCHANGED <<overflow_checks, terminal, widgets, output, hw, source, lines>>

SplitHorizontallyAt ==
    \E i \in 1..Len(regions), f \in Percentages :
        Split(i, "split_horizontally_at", f, split_horizontally_at(regions[i], f))

SplitVerticallyAt ==
    \E i \in 1..Len(regions), f \in Percentages :
        Split(i, "split_vertically_at", f, split_vertically_at(regions[i], f))

\* split_horizontally(): split_horizontally_at(0.5)
SplitHorizontally ==
    \E i \in 1..Len(regions) :
        Split(i, "split_horizontally", Half, split_horizontally_at(regions[i], Half))

\* split_vertically(): split_vertically_at(0.5)
SplitVertically ==
    \E i \in 1..Len(regions) :
        Split(i, "split_vertically", Half, split_vertically_at(regions[i], Half))

----------------------------------------------------------------------------
(* Terminal *)

\* Terminal::try_new for a terminal of the given size
Terminal_try_new(width, height) ==
    [width |-> width, height |-> height,
     buffer |-> [i \in 1..(width * height) |-> DefaultCell]]

NoIterator == [text |-> <<>>, width |-> 0]

\* The layout specification: a terminal of any size up to MaxWidth x MaxHeight,
\* whose screen region the caller splits again and again.
InitLayout ==
    /\ overflow_checks = TRUE
    /\ \E w \in 1..MaxWidth, h \in 1..MaxHeight : terminal = Terminal_try_new(w, h)
    /\ regions = <<Terminal_area(terminal)>>
    /\ widgets = <<>>
    /\ output = <<>>
    /\ status = "running"
    /\ ret = [op |-> "area"]
    /\ hw = NoIterator
    /\ source = <<>>
    /\ lines = <<>>

NextLayout ==
    \/ SplitHorizontallyAt
    \/ SplitVerticallyAt
    \/ SplitHorizontally
    \/ SplitVertically

SpecLayout == InitLayout /\ [][NextLayout]_vars

----------------------------------------------------------------------------
(* HardwrappingText *)

NewLine == "\n"

\* self.text.iter().position(|c| c == &'\n'): the 0-based index of the first
\* line break, as an Option
RECURSIVE position(_)
position(text) ==
    IF text = <<>> THEN None
    ELSE IF Head(text) = NewLine THEN Some(0)
    ELSE LET p == position(Tail(text))
         IN  IF p = None THEN None ELSE Some(p[1] + 1)

\* &text[from..]
SliceFrom(text, from) == SubSeq(text, from + 1, Len(text))

\* &text[0..to]
SliceTo(text, to) == SubSeq(text, 1, to)

HardwrappingText_new(text, width) == [text |-> text, width |-> width]

\* next() that drops the break whenever it found one
HardwrappingText_next_always_strips(self) ==
    IF self.text = <<>> THEN [item |-> None, self |-> self]
    ELSE LET p == position(self.text)
             found_newline == p # None
             line_end == IF found_newline THEN p[1] ELSE Len(self.text)
             strip_newline == found_newline
             hardwrapped_line_end == Min(self.width, line_end)
         IN  [item |-> Some(SliceTo(self.text, hardwrapped_line_end)),
              self |-> [self EXCEPT !.text =
                  SliceFrom(self.text, hardwrapped_line_end + (IF strip_newline THEN 1 ELSE 0))]]

\* next() that cuts the line one short of the width
HardwrappingText_next_short_line(self) ==
    IF self.text = <<>> THEN [item |-> None, self |-> self]
    ELSE LET p == position(self.text)
             found_newline == p # None
             line_end == IF found_newline THEN p[1] ELSE Len(self.text)
             strip_newline == found_newline /\ line_end <= self.width
             hardwrapped_line_end == Min(self.width, line_end)
         IN  [item |-> Some(SliceTo(self.text, hardwrapped_line_end - 1)),
              self |-> [self EXCEPT !.text =
                  SliceFrom(self.text, hardwrapped_line_end + (IF strip_newline THEN 1 ELSE 0))]]

\* <HardwrappingText as Iterator>::next: the item it returns and the iterator after it.
\* A slice range past the end of the text cannot arise: hardwrapped_line_end <=
\* line_end, and line_end + 1 <= len when a break was found.
HardwrappingText_next(self) ==
    IF self.text = <<>> THEN [item |-> None, self |-> self]
    ELSE LET p == position(self.text)
             found_newline == p # None
             line_end == IF found_newline THEN p[1] ELSE Len(self.text)
             strip_newline == found_newline /\ line_end <= self.width
             hardwrapped_line_end == Min(self.width, line_end)
         IN  [item |-> Some(SliceTo(self.text, hardwrapped_line_end)),
              self |-> [self EXCEPT !.text =
                  SliceFrom(self.text, hardwrapped_line_end + (IF strip_newline THEN 1 ELSE 0))]]

\* the iterator has returned None: its consumer stops
Exhausted == ret.op = "next" /\ ret.item = None

\* One call of next() by a consumer that collects the items.
Next_ ==
    /\ status = "running"
    /\ ~Exhausted
    /\ Len(lines) < MaxLines
    /\ LET r == HardwrappingText_next(hw)
       IN  /\ hw' = r.self
           /\ lines' = lines \o r.item
           /\ ret' = [op |-> "next", self |-> hw, item |-> r.item]
    /\ UNCHANGED <<overflow_checks, terminal, regions, widgets, output, status, source>>

Chars == {"a", "b", NewLine}

RECURSIVE SeqsUpTo(_, _)
SeqsUpTo(S, n) ==
    IF n = 0 THEN {<<>>}
    ELSE LET shorter == SeqsUpTo(S, n - 1)
         IN  shorter \cup {Append(t, c) : t \in shorter, c \in S}

\* the text of the documented example "ab\ncd", which is wrapped at width 10
AbCd == <<"a", "b", NewLine, "c", "d">>

\* The iterator specification: an iterator over any text of up to MaxTextLen
\* characters, and over the example, with any target width up to MaxWrapWidth
\* (0 is what Text::new passes for a region of width 2).
InitWrap ==
    /\ overflow_checks = TRUE
    /\ terminal = Terminal_try_new(1, 1)
    /\ regions = <<>>
    /\ widgets = <<>>
    /\ output = <<>>
    /\ status = "running"
    /\ \E text \in SeqsUpTo(Chars, MaxTextLen) \cup {AbCd},
          width \in (0..MaxWrapWidth) \cup {10} :
           /\ source = text
           /\ hw = HardwrappingText_new(text, width)
    /\ lines = <<>>
    /\ ret = [op |-> "new"]

NextWrap == Next_

SpecWrap == InitWrap /\ [][NextWrap]_vars

----------------------------------------------------------------------------
(* usize arithmetic, the cell buffer and the writes of a render *)

UsizeMod == Pow2(UsizeBits)
WrappingSub(a, b) == (a - b) % UsizeMod
WrappingAdd(a, b) == (a + b) % UsizeMod
WrappingMul(a, b) == (a * b) % UsizeMod

RECURSIVE Flatten(_)
Flatten(ss) == IF ss = <<>> THEN <<>> ELSE Head(ss) \o Flatten(Tail(ss))

\* A render is the sequence of its steps, in program order: Set is
\* `terminal.buffer[position_to_buffer_index(x, y)].field = value`, Panic an
\* arithmetic overflow in a build with overflow checks.
Set(field, x, y, value) == [op |-> "set", field |-> field, x |-> x, y |-> y, value |-> value]
Panic == [op |-> "panic"]

\* the steps prog, guarded by an arithmetic that must not overflow
Checked(no_overflow, prog) == IF overflow_checks /\ ~no_overflow THEN <<Panic>> ELSE prog

\* Terminal::position_to_buffer_index, None where a debug assertion or an
\* overflow check fails
Terminal_position_to_buffer_index(self, x, y) ==
    IF overflow_checks /\ ~(x <= self.width /\ y <= self.height /\ y * self.width + x < UsizeMod)
    THEN None
    ELSE Some(WrappingAdd(WrappingMul(y, self.width), x))

\* Rectangle::position_to_buffer_index, None where a debug assertion or an
\* overflow check fails
Rectangle_position_to_buffer_index(self, t, x, y) ==
    IF overflow_checks /\ ~(x <= self.width /\ y <= self.height
                            /\ self.x + x < UsizeMod /\ self.y + y < UsizeMod)
    THEN None
    ELSE Terminal_position_to_buffer_index(t, WrappingAdd(self.x, x), WrappingAdd(self.y, y))

\* Runs the steps of a render of a widget with the given area against the
\* terminal's buffer, in order, up to the first step that panics (an overflow,
\* a failed debug assertion, or an index outside the buffer). The steps are run
\* half by half, which is running them one after the other.
RECURSIVE Run(_, _, _)
Run(t, area, prog) ==
    IF prog = <<>> THEN [buffer |-> t.buffer, panicked |-> FALSE]
    ELSE IF Len(prog) = 1 THEN
        LET step == prog[1]
            index == IF step.op = "panic" THEN None
                     ELSE Rectangle_position_to_buffer_index(area, t, step.x, step.y)
        IN  IF index = None \/ index[1] >= Len(t.buffer)
            THEN [buffer |-> t.buffer, panicked |-> TRUE]
            ELSE [buffer |-> [t.buffer EXCEPT ![index[1] + 1][step.field] = step.value],
                  panicked |-> FALSE]
    ELSE LET half == Len(prog) \div 2
             first == Run(t, area, SubSeq(prog, 1, half))
         IN  IF first.panicked THEN first
             ELSE Run([t EXCEPT !.buffer = first.buffer], area,
                      SubSeq(prog, half + 1, Len(prog)))

\* the box-drawing characters, by code point
TopLeft == "U+250C"
TopRight == "U+2510"
BottomLeft == "U+2514"
BottomRight == "U+2518"
Horizontal == "U+2500"
Vertical == "U+2502"

\* the glyph <Rectangle as Widget>::render puts at (x, y), None in the interior
BorderGlyph(self, x, y) ==
    IF y = 0 THEN
        IF x = 0 THEN Some(TopLeft)
        ELSE IF x = self.width - 1 THEN Some(TopRight)
        ELSE Some(Horizontal)
    ELSE IF y = self.height - 1 THEN
        IF x = 0 THEN Some(BottomLeft)
        ELSE IF x = self.width - 1 THEN Some(BottomRight)
        ELSE Some(Horizontal)
    ELSE IF x = 0 \/ x = self.width - 1 THEN Some(Vertical)
    ELSE None

\* <Rectangle as Widget>::render: the border, row by row, then the title from (2, 0)
Rectangle_render(self) ==
    LET cells == [k \in 1..(self.width * self.height) |->
                     [x |-> (k - 1) % self.width, y |-> (k - 1) \div self.width]]
        IsBorder(c) == BorderGlyph(self, c.x, c.y) # None
        border == SelectSeq(cells, IsBorder)
        frame == [j \in 1..(2 * Len(border)) |->
                     LET c == border[(j + 1) \div 2]
                     IN  IF j % 2 = 1
                         THEN Set("character", c.x, c.y, BorderGlyph(self, c.x, c.y)[1])
                         ELSE Set("foreground_color", c.x, c.y, self.border_color)]
        title == IF self.title = None THEN <<>>
                 ELSE [j \in 1..Len(self.title[1]) |->
                          Set("character", (j - 1) + 2, 0, self.title[1][j])]
    IN  frame \o title

----------------------------------------------------------------------------
(* Text *)

\* HardwrappingText::new(..).into_iter().count(): Some(n), or None when the
\* iterator never returns None (a step that leaves a non-empty text as it was)
RECURSIVE count(_)
count(self) ==
    IF self.text = <<>> THEN Some(0)
    ELSE LET r == HardwrappingText_next(self)
         IN  IF r.self = self THEN None
             ELSE LET n == count(r.self)
                  IN  IF n = None THEN None ELSE Some(n[1] + 1)

\* .take(n): the first n items of the iterator
RECURSIVE take(_, _)
take(self, n) ==
    IF n = 0 THEN <<>>
    ELSE LET r == HardwrappingText_next(self)
         IN  IF r.item = None THEN <<>> ELSE r.item \o take(r.self, n - 1)

\* Text::new: the Text, or how the constructor failed to return one
Text_new(text, vertical_alignment, horizontal_alignment, area) ==
    IF overflow_checks /\ area.width < 2 THEN [outcome |-> "panic"]
    ELSE LET lines_count == count(HardwrappingText_new(text, WrappingSub(area.width, 2)))
         IN  IF lines_count = None THEN [outcome |-> "hang"]
             ELSE [outcome |-> "running",
                   widget |-> [kind |-> "Text", text |-> text,
                               vertical_alignment |-> vertical_alignment,
                               horizontal_alignment |-> horizontal_alignment,
                               area |-> area, lines_count |-> lines_count[1]]]

\* Text::change_text
Text_change_text(self, new_text) ==
    LET text == IF new_text = None THEN <<>> ELSE new_text[1]
    IN  IF overflow_checks /\ self.area.width < 2 THEN [outcome |-> "panic"]
        ELSE LET lines_count == count(HardwrappingText_new(text, WrappingSub(self.area.width, 2)))
             IN  IF lines_count = None THEN [outcome |-> "hang"]
                 ELSE [outcome |-> "running",
                       widget |-> [self EXCEPT !.text = text, !.lines_count = lines_count[1]]]

\* Text's render with Center counted from the interior width, without the border column
Text_render_center_of_interior(self) ==
    LET height == self.area.height
        width == self.area.width
        y == CASE self.vertical_alignment = "Top" -> 1
               [] self.vertical_alignment = "Bottom" ->
                      WrappingSub(WrappingSub(WrappingSub(height, 1), 1), self.lines_count)
               [] self.vertical_alignment = "Center" ->
                      WrappingSub(height, self.lines_count) \div 2
        y_fits == CASE self.vertical_alignment = "Top" -> TRUE
                    [] self.vertical_alignment = "Bottom" -> height >= 1 + 1 + self.lines_count
                    [] self.vertical_alignment = "Center" -> height >= self.lines_count
        hardwrapped_lines == take(HardwrappingText_new(self.text, WrappingSub(width, 2)),
                                  WrappingSub(height, 2))
        Line(line_index) ==
            LET line == hardwrapped_lines[line_index + 1]
                x == CASE self.horizontal_alignment = "Left" -> 1
                       [] self.horizontal_alignment = "Right" ->
                              WrappingSub(WrappingSub(width, Len(line)), 1)
                       [] self.horizontal_alignment = "Center" ->
                              WrappingSub(WrappingSub(width, 2), Len(line)) \div 2
                x_fits == CASE self.horizontal_alignment = "Left" -> TRUE
                            [] self.horizontal_alignment = "Right" -> width >= Len(line) + 1
                            [] self.horizontal_alignment = "Center" -> width >= Len(line)
            IN  Checked(x_fits,
                    [row_index \in 1..Len(line) |->
                        Set("character", WrappingAdd(x, row_index - 1),
                            WrappingAdd(y, line_index), line[row_index])])
    IN  Rectangle_render(self.area)
            \o Checked(y_fits /\ width >= 2 /\ height >= 2,
                   Flatten([i \in 1..Len(hardwrapped_lines) |-> Line(i - 1)]))

\* <Text as Widget>::render: the frame, then the first height - 2 wrapped lines
Text_render(self) ==
    LET height == self.area.height
        width == self.area.width
        y == CASE self.vertical_alignment = "Top" -> 1
               [] self.vertical_alignment = "Bottom" ->
                      WrappingSub(WrappingSub(WrappingSub(height, 1), 1), self.lines_count)
               [] self.vertical_alignment = "Center" ->
                      WrappingSub(height, self.lines_count) \div 2
        y_fits == CASE self.vertical_alignment = "Top" -> TRUE
                    [] self.vertical_alignment = "Bottom" -> height >= 1 + 1 + self.lines_count
                    [] self.vertical_alignment = "Center" -> height >= self.lines_count
        hardwrapped_lines == take(HardwrappingText_new(self.text, WrappingSub(width, 2)),
                                  WrappingSub(height, 2))
        Line(line_index) ==
            LET line == hardwrapped_lines[line_index + 1]
                x == CASE self.horizontal_alignment = "Left" -> 1
                       [] self.horizontal_alignment = "Right" ->
                              WrappingSub(WrappingSub(width, Len(line)), 1)
                       [] self.horizontal_alignment = "Center" ->
                              WrappingSub(width, Len(line)) \div 2
                x_fits == CASE self.horizontal_alignment = "Left" -> TRUE
                            [] self.horizontal_alignment = "Right" -> width >= Len(line) + 1
                            [] self.horizontal_alignment = "Center" -> width >= Len(line)
            IN  Checked(x_fits,
                    [row_index \in 1..Len(line) |->
                        Set("character", WrappingAdd(x, row_index - 1),
                            WrappingAdd(y, line_index), line[row_index])])
    IN  Rectangle_render(self.area)
            \o Checked(y_fits /\ width >= 2 /\ height >= 2,
                   Flatten([i \in 1..Len(hardwrapped_lines) |-> Line(i - 1)]))

----------------------------------------------------------------------------
(* ItemList *)

\* a character of two UTF-8 bytes
EAcute == "U+00E9"

\* char::len_utf8
Utf8Len(c) ==
    IF c = EAcute THEN 2
    ELSE IF c \in {TopLeft, TopRight, BottomLeft, BottomRight, Horizontal, Vertical} THEN 3
    ELSE 1

\* String::len: the length in bytes
RECURSIVE StrLen(_)
StrLen(str) == IF str = <<>> THEN 0 ELSE Utf8Len(Head(str)) + StrLen(Tail(str))

\* items.iter().map(|item| item.len()).max(), as an Option
MaxItemLen(items) ==
    IF items = <<>> THEN None
    ELSE Some(CHOOSE m \in {StrLen(items[k]) : k \in 1..Len(items)} :
                  \A k \in 1..Len(items) : StrLen(items[k]) <= m)

\* a < Some(b) for an Option a: None is below every Some
OptionLess(a, b) == a = None \/ a[1] < b

\* ItemList::new: the ItemList, or the panic of an assertion or an overflow check
ItemList_new(items, vertical_alignment, horizontal_alignment, area) ==
    IF /\ ~(overflow_checks /\ area.height < 2)
       /\ Len(items) <= WrappingSub(area.height, 2)
       /\ ~(overflow_checks /\ area.width < 2)
       /\ OptionLess(MaxItemLen(items), WrappingSub(area.width, 2))
    THEN [outcome |-> "running",
          widget |-> [kind |-> "ItemList", items |-> items,
                      vertical_alignment |-> vertical_alignment,
                      horizontal_alignment |-> horizontal_alignment,
                      area |-> area, selected_row |-> None]]
    ELSE [outcome |-> "panic"]

\* the vertical offset of a block of n rows: the rule ItemList and Table share
BlockYOffset(self, n) ==
    CASE self.vertical_alignment = "Top" -> 1
      [] self.vertical_alignment = "Bottom" ->
             WrappingSub(WrappingSub(self.area.height, n), 1)
      [] self.vertical_alignment = "Center" -> WrappingSub(self.area.height, n) \div 2

\* no subtraction of BlockYOffset overflows
BlockYFits(self, n) ==
    CASE self.vertical_alignment = "Top" -> TRUE
      [] self.vertical_alignment = "Bottom" -> self.area.height >= n + 1
      [] self.vertical_alignment = "Center" -> self.area.height >= n

\* the highlight of the selected row, cut one column short
Highlight_one_short(self, y_offset) ==
    IF self.selected_row = None THEN <<>>
    ELSE Checked(self.area.width >= 1,
             Flatten([i \in 1..(WrappingSub(self.area.width, 1) - 2) |->
                 << Set("background_color", i, WrappingAdd(y_offset, self.selected_row[1]), "Cyan"),
                    Set("foreground_color", i, WrappingAdd(y_offset, self.selected_row[1]), "Black") >>]))

\* `if let Some(selected_row) = self.selected_row { for i in 1..self.width() - 1 {..} }`:
\* the highlight of the selected row, as ItemList and Table paint it
Highlight(self, y_offset) ==
    IF self.selected_row = None THEN <<>>
    ELSE Checked(self.area.width >= 1,
             Flatten([i \in 1..(WrappingSub(self.area.width, 1) - 1) |->
                 << Set("background_color", i, WrappingAdd(y_offset, self.selected_row[1]), "Cyan"),
                    Set("foreground_color", i, WrappingAdd(y_offset, self.selected_row[1]), "Black") >>]))

\* <ItemList as Widget>::render: the frame, the highlight, then the items
ItemList_render(self) ==
    LET width == self.area.width
        n == Len(self.items)
        longest == IF MaxItemLen(self.items) = None THEN 0 ELSE MaxItemLen(self.items)[1]
        y_offset == BlockYOffset(self, n)
        x_offset == CASE self.horizontal_alignment = "Left" -> 1
                      [] self.horizontal_alignment = "Right" ->
                             WrappingSub(WrappingSub(width, longest), 1)
                      [] self.horizontal_alignment = "Center" ->
                             WrappingSub(width, longest) \div 2
        x_fits == CASE self.horizontal_alignment = "Left" -> TRUE
                    [] self.horizontal_alignment = "Right" -> width >= longest + 1
                    [] self.horizontal_alignment = "Center" -> width >= longest
        Item(y) == [x \in 1..Len(self.items[y + 1]) |->
                       Set("character", WrappingAdd(x_offset, x - 1), WrappingAdd(y_offset, y),
                           self.items[y + 1][x])]
    IN  Rectangle_render(self.area)
            \o (IF self.items = <<>> THEN <<>>
                ELSE Checked(BlockYFits(self, n) /\ x_fits,
                         Highlight(self, y_offset)
                             \o Flatten([k \in 1..n |-> Item(k - 1)])))

----------------------------------------------------------------------------
(* Table *)

\* the longest row's number of items, None for no rows
MaxRowSize(items) ==
    IF items = <<>> THEN None
    ELSE Some(CHOOSE m \in {Len(items[k]) : k \in 1..Len(items)} :
                  \A k \in 1..Len(items) : Len(items[k]) <= m)

\* column_lengths[i]: the longest item, in bytes, of column i over all rows
ColumnLengths(items) ==
    [i \in 1..MaxRowSize(items)[1] |->
        LET lens == {StrLen(items[k][i]) : k \in {r \in 1..Len(items) : i <= Len(items[r])}} \cup {0}
        IN  CHOOSE m \in lens : \A l \in lens : l <= m]

\* Table::new: the Table, or the panic of the unwrap, an assertion or an overflow check
Table_new(items, vertical_alignment, horizontal_alignment, area) ==
    IF MaxRowSize(items) = None THEN [outcome |-> "panic"]
    ELSE LET column_lengths == ColumnLengths(items)
             required_width == SumSeq(column_lengths)
         IN  IF /\ ~(overflow_checks /\ area.height < 2)
                /\ Len(items) <= WrappingSub(area.height, 2)
                /\ ~(overflow_checks /\ area.width < 2)
                /\ required_width < WrappingSub(area.width, 2)
             THEN [outcome |-> "running",
                   widget |-> [kind |-> "Table", items |-> items,
                               vertical_alignment |-> vertical_alignment,
                               horizontal_alignment |-> horizontal_alignment,
                               area |-> area, column_lengths |-> column_lengths,
                               selected_row |-> None]]
             ELSE [outcome |-> "panic"]

\* <Table as Widget>::render: the frame, the highlight, then the rows column by column
Table_render(self) ==
    LET width == self.area.width
        n == Len(self.items)
        sum == SumSeq(self.column_lengths)
        columns == Len(self.column_lengths)
        y_offset == BlockYOffset(self, n)
        x_offset == CASE self.horizontal_alignment = "Left" -> 1
                      [] self.horizontal_alignment = "Right" ->
                             WrappingSub(WrappingSub(WrappingSub(WrappingSub(width, sum), 1),
                                                     columns), 1)
                      [] self.horizontal_alignment = "Center" ->
                             WrappingSub(WrappingSub(WrappingSub(width, sum), columns), 1) \div 2
        x_fits == CASE self.horizontal_alignment = "Left" -> TRUE
                    [] self.horizontal_alignment = "Right" -> width >= sum + 1 + columns + 1
                    [] self.horizontal_alignment = "Center" -> width >= sum + columns + 1
        Cell(row_index, column_index) ==
            LET item == self.items[row_index + 1][column_index + 1]
                x == SumSeq(SubSeq(self.column_lengths, 1, column_index)) + column_index
            IN  [k \in 1..Len(item) |->
                    Set("character", WrappingAdd(WrappingAdd(x_offset, x), k - 1),
                        WrappingAdd(y_offset, row_index), item[k])]
        Row(row_index) ==
            Flatten([c \in 1..Len(self.items[row_index + 1]) |-> Cell(row_index, c - 1)])
    IN  Rectangle_render(self.area)
            \o (IF self.items = <<>> THEN <<>>
                ELSE Checked(BlockYFits(self, n) /\ x_fits,
                         Highlight(self, y_offset)
                             \o Flatten([r \in 1..n |-> Row(r - 1)])))

----------------------------------------------------------------------------
(* Terminal::draw *)

ClearScreen == "ESC[2J"

\* Color::apply_foreground: the escape sequence it prints
apply_foreground(color) ==
    CASE color = "Black" -> "ESC[30m"
      [] color = "Cyan" -> "ESC[36m"
      [] color = "Default" -> "ESC[39m"
      [] color = "Green" -> "ESC[32m"

\* Color::apply_background: the escape sequence it prints
apply_background(color) ==
    CASE color = "Black" -> "ESC[40m"
      [] color = "Cyan" -> "ESC[46m"
      [] color = "Default" -> "ESC[49m"
      [] color = "Green" -> "ESC[42m"

\* The body of draw's inner loop for the cells buffer[from..from + n], entered
\* with the given current colors: what it prints and the current colors after
\* it. The cells are taken half by half, which is taking them one after the other.
RECURSIVE DrawCells(_, _, _, _, _)
DrawCells(buffer, from, n, foreground, background) ==
    IF n = 0 THEN [printed |-> <<>>, foreground |-> foreground, background |-> background]
    ELSE IF n = 1 THEN
        LET cell == buffer[from + 1]
        IN  [printed |->
                 (IF cell.foreground_color # foreground
                  THEN <<apply_foreground(cell.foreground_color)>> ELSE <<>>)
                 \o (IF cell.background_color # background
                     THEN <<apply_background(cell.background_color)>> ELSE <<>>)
                 \o <<cell.character>>,
             foreground |-> cell.foreground_color,
             background |-> cell.background_color]
    ELSE LET half == n \div 2
             first == DrawCells(buffer, from, half, foreground, background)
             second == DrawCells(buffer, from + half, n - half,
                                 first.foreground, first.background)
         IN  [printed |-> first.printed \o second.printed,
              foreground |-> second.foreground, background |-> second.background]

\* Terminal::draw that compares every cell with the Default colors
Terminal_draw_against_default(self) ==
    <<ClearScreen, apply_foreground("Default"), apply_background("Default")>>
        \o Flatten([i \in 1..Len(self.buffer) |->
               DrawCells(self.buffer, i - 1, 1, "Default", "Default").printed])

\* Terminal::draw: what it prints. The rows (0..len).step_by(width) of width
\* cells each are the cells 0..len in order, the buffer holding width * height.
Terminal_draw(self) ==
    <<ClearScreen, apply_foreground("Default"), apply_background("Default")>>
        \o DrawCells(self.buffer, 0, Len(self.buffer), "Default", "Default").printed

----------------------------------------------------------------------------
(* The caller's operations on widgets *)

VerticalAlignment == {"Top", "Bottom", "Center"}
HorizontalAlignment == {"Left", "Right", "Center"}

\* the steps of widget.render(terminal), by the widget's kind
Widget_render(self) ==
    CASE self.kind = "Text" -> Text_render(self)
      [] self.kind = "ItemList" -> ItemList_render(self)
      [] self.kind = "Table" -> Table_render(self)

\* A constructor consumes regions[i] and returns the widget, panics or never returns.
Construct(i, op, args, made) ==
    /\ status = "running"
    /\ i \in 1..Len(regions)
    /\ Len(widgets) < MaxWidgets
    /\ regions' = RemoveAt(regions, i)
    /\ widgets' = IF made.outcome = "running" THEN Append(widgets, made.widget) ELSE widgets
    /\ status' = made.outcome
    /\ ret' = [op |-> op, area |-> regions[i], args |-> args, outcome |-> made.outcome]
    /\ UNCHANGED <<overflow_checks, terminal, output, hw, source, lines>>

\* texts a caller shows: one line, several lines by wrapping, several by breaks
Texts ==
    { <<"H", "i">>,
      <<"a", "b", "c", "d", "e", "f", "g", "h", "i">>,
      <<"a", NewLine, "b", NewLine, "c", NewLine, "d">>,
      <<"a", "b", NewLine, NewLine>> }

\* the texts of the end-to-end example
Labels == { <<"L">>, <<"R">> }

\* the pairs of alignments examples/example_1.rs uses
ExampleAlignments == {<<"Center", "Center">>, <<"Top", "Left">>, <<"Bottom", "Right">>}

\* region.text(text, vertical_alignment, horizontal_alignment)
NewTextOf(texts, alignments) ==
    \E i \in 1..Len(regions), text \in texts, alignment \in alignments :
        Construct(i, "text", text, Text_new(text, alignment[1], alignment[2], regions[i]))

NewText == NewTextOf(Texts, VerticalAlignment \X HorizontalAlignment)

NewLabel == NewTextOf(Labels, ExampleAlignments)

\* text.change_text(new_text)
ChangeText ==
    \E j \in 1..Len(widgets), new_text \in {None} \cup {Some(t) : t \in Texts} :
        /\ status = "running"
        /\ widgets[j].kind = "Text"
        /\ LET changed == Text_change_text(widgets[j], new_text)
           IN  /\ widgets' = IF changed.outcome = "running"
                             THEN [widgets EXCEPT ![j] = changed.widget] ELSE widgets
               /\ status' = changed.outcome
               /\ ret' = [op |-> "change_text", outcome |-> changed.outcome]
        /\ UNCHANGED <<overflow_checks, terminal, regions, output, hw, source, lines>>

\* Strings a caller lists
Str_a == <<"a">>
Str_ab == <<"a", "b">>
Str_abc == <<"a", "b", "c">>
Str_e == <<EAcute>>

\* the item lists a caller shows
ItemLists == { <<>>, <<Str_a>>, <<Str_ab, Str_e>>, <<Str_a, Str_abc, Str_ab>> }

\* region.item_list(items, vertical_alignment, horizontal_alignment)
NewItemListOf(lists, alignments) ==
    \E i \in 1..Len(regions), items \in lists, alignment \in alignments :
        Construct(i, "item_list", items,
                  ItemList_new(items, alignment[1], alignment[2], regions[i]))

NewItemList == NewItemListOf(ItemLists, VerticalAlignment \X HorizontalAlignment)

\* the item list of the flush specification
Menus == { <<Str_a>> }

NewMenu == NewItemListOf(Menus, ExampleAlignments)

\* the tables a caller shows
Tables ==
    { <<>>,
      << <<Str_a>> >>,
      << <<Str_a, Str_a, Str_a>> >>,
      << <<Str_a, Str_ab>>, <<Str_abc, Str_a>> >>,
      << <<Str_ab>>, <<Str_e, Str_a>>, <<Str_a>> >> }

\* region.table(items, vertical_alignment, horizontal_alignment)
NewTable ==
    \E i \in 1..Len(regions), items \in Tables,
       va \in VerticalAlignment, ha \in HorizontalAlignment :
        Construct(i, "table", items, Table_new(items, va, ha, regions[i]))

\* item_list.set_selected(index), table.set_selected(index)
SetSelected ==
    \E j \in 1..Len(widgets), index \in {None} \cup {Some(r) : r \in 0..MaxSelected} :
        /\ status = "running"
        /\ widgets[j].kind \in {"ItemList", "Table"}
        /\ widgets' = [widgets EXCEPT ![j].selected_row = index]
        /\ UNCHANGED <<overflow_checks, terminal, regions, output, status, ret, hw, source, lines>>

\* the border colors a caller sets: examples/example_1.rs sets Green
BorderColors == {"Default", "Green"}

\* widget.set_border_color(color)
SetBorderColor ==
    \E j \in 1..Len(widgets), color \in BorderColors :
        /\ status = "running"
        /\ widgets' = [widgets EXCEPT ![j].area.border_color = color]
        /\ UNCHANGED <<overflow_checks, terminal, regions, output, status, ret, hw, source, lines>>

\* terminal.draw(): prints the frame and clears the buffer
Draw ==
    /\ status = "running"
    /\ output' = Terminal_draw(terminal)
    /\ terminal' = [terminal EXCEPT !.buffer = [i \in 1..Len(terminal.buffer) |-> DefaultCell]]
    /\ ret' = [op |-> "draw", frame |-> terminal.buffer]
    /\ UNCHANGED <<overflow_checks, regions, widgets, status, hw, source, lines>>

\* widget.render(&mut terminal)
Render ==
    \E j \in 1..Len(widgets) :
        /\ status = "running"
        /\ LET ran == Run(terminal, widgets[j].area, Widget_render(widgets[j]))
           IN  /\ terminal' = [terminal EXCEPT !.buffer = ran.buffer]
               /\ status' = IF ran.panicked THEN "panic" ELSE status
               /\ ret' = [op |-> "render", self |-> widgets[j],
                          outcome |-> IF ran.panicked THEN "panic" ELSE "running"]
        /\ UNCHANGED <<overflow_checks, regions, widgets, output, hw, source, lines>>

\* The frame specifications: a terminal of one of the given sizes, built either
\* way, whose screen region the caller fills with widgets.
InitFrame(sizes) ==
    /\ overflow_checks \in BOOLEAN
    /\ \E size \in sizes : terminal = Terminal_try_new(size[1], size[2])
    /\ regions = <<Terminal_area(terminal)>>
    /\ widgets = <<>>
    /\ output = <<>>
    /\ status = "running"
    /\ ret = [op |-> "area"]
    /\ hw = NoIterator
    /\ source = <<>>
    /\ lines = <<>>

\* The Text specification: one Text over the whole screen of a terminal whose
\* width runs from 2 (no interior) to 12 (an interior of 10 columns).
TextSizes == {<<2, 3>>, <<3, 3>>, <<3, 4>>, <<4, 2>>, <<5, 4>>, <<6, 5>>, <<12, 3>>}

InitText == InitFrame(TextSizes)

NextText ==
    \/ NewText
    \/ ChangeText
    \/ Render

SpecText == InitText /\ [][NextText]_vars

\* The specification of the end-to-end example: a 20 x 5 screen split into
\* halves that the caller turns into Texts.
ExampleSizes == {<<20, 5>>}

InitExample == InitFrame(ExampleSizes)

NextExample ==
    \/ SplitHorizontally
    \/ NewLabel
    \/ Render

SpecExample == InitExample /\ [][NextExample]_vars

\* The ItemList specification: one ItemList over the whole screen.
ListSizes == {<<3, 3>>, <<4, 3>>, <<5, 4>>, <<6, 5>>}

InitList == InitFrame(ListSizes)

NextList ==
    \/ NewItemList
    \/ SetSelected
    \/ Render

SpecList == InitList /\ [][NextList]_vars

\* The Table specification: one Table over the whole screen.
TableSizes == {<<4, 3>>, <<6, 3>>, <<8, 4>>, <<9, 5>>}

InitTable == InitFrame(TableSizes)

NextTable ==
    \/ NewTable
    \/ SetSelected
    \/ Render

SpecTable == InitTable /\ [][NextTable]_vars

\* The flush specification: a small screen with one ItemList, whose border
\* color and selection change from frame to frame.
DrawSizes == {<<4, 3>>}

InitDraw == InitFrame(DrawSizes)

NextDraw ==
    \/ NewMenu
    \/ SetSelected
    \/ SetBorderColor
    \/ Render
    \/ Draw

SpecDraw == InitDraw /\ [][NextDraw]_vars

----------------------------------------------------------------------------
(* Layout properties *)

IsHorizontalSplit == ret.op \in {"split_horizontally_at", "split_horizontally"}
IsVerticalSplit == ret.op \in {"split_vertically_at", "split_vertically"}

\* C1: a horizontal split of R at a fraction in (0,1) returns (left, right) with
\* left.width + right.width = R.width and both heights equal to R.height; a
\* vertical split returns (top, bottom) with top.height + bottom.height =
\* R.height and both widths equal to R.width.
C1_SplitKeepsExtent ==
    /\ IsHorizontalSplit =>
          /\ ret.first.width + ret.second.width = ret.self.width
          /\ ret.first.height = ret.self.height
          /\ ret.second.height = ret.self.height
    /\ IsVerticalSplit =>
          /\ ret.first.height + ret.second.height = ret.self.height
          /\ ret.first.width = ret.self.width
          /\ ret.second.width = ret.self.width

\* both kinds of split have returned, one of them with a rounded product (0.7)
C1_Witness ==
    /\ IsVerticalSplit
    /\ ret.percentage = F07
    /\ ret.self.height = 3
    /\ ret.first.height = 2
    /\ ret.self.x > 0

\* the cell (cx, cy) of the screen lies in the rectangle r
Contains(r, cx, cy) ==
    /\ r.x <= cx /\ cx < r.x + r.width
    /\ r.y <= cy /\ cy < r.y + r.height

\* C2: after any sequence of splits of the screen region, every screen cell
\* belongs to exactly one of the current leaf regions (so the leaves do not
\* overlap and leave no cell uncovered).
C2_LeavesTileScreen ==
    status = "running" =>
        \A cx \in 0..(terminal.width - 1), cy \in 0..(terminal.height - 1) :
            Cardinality({i \in 1..Len(regions) : Contains(regions[i], cx, cy)}) = 1

\* three leaves, made by a horizontal and then a vertical split, none of them empty
C2_Witness ==
    /\ status = "running"
    /\ Len(regions) = 3
    /\ \E i \in 1..3 : regions[i].x > 0 /\ regions[i].y > 0
    /\ \A i \in 1..3 : regions[i].width >= 1 /\ regions[i].height >= 1

\* C3 (as claimed): every region reachable from the screen region satisfies
\* x + width <= W, y + height <= H, width >= 1 and height >= 1.
C3_RegionInvariant ==
    \A i \in 1..Len(regions) :
        /\ regions[i].x + regions[i].width <= terminal.width
        /\ regions[i].y + regions[i].height <= terminal.height
        /\ regions[i].width >= 1
        /\ regions[i].height >= 1

----------------------------------------------------------------------------
(* Line wrapper properties *)

RECURSIVE Concat(_)
Concat(ls) == IF ls = <<>> THEN <<>> ELSE Head(ls) \o Concat(Tail(ls))

HasNoBreak(text) == \A i \in 1..Len(text) : text[i] # NewLine

CeilDiv(n, d) == (n + d - 1) \div d

\* C6: wrapping a text without line breaks at a width W >= 1 yields exactly
\* ceil(len / W) lines, each of at most W characters, whose concatenation in
\* order is the text.
C6_WrapWithoutBreaks ==
    (Exhausted /\ HasNoBreak(source) /\ hw.width >= 1) =>
        /\ Len(lines) = CeilDiv(Len(source), hw.width)
        /\ \A i \in 1..Len(lines) : Len(lines[i]) <= hw.width
        /\ Concat(lines) = source

\* a text without breaks that needs several lines, the last one shorter
C6_Witness ==
    /\ Exhausted
    /\ source = <<"a", "b", "a">>
    /\ hw.width = 2
    /\ lines = << <<"a", "b">>, <<"a">> >>

\* the step that ret records yielded a line
Stepped == ret.op = "next" /\ ret.item # None

\* the step ended its line at the first line break, at 0-based index p, and
\* consumed the break without emitting it
EndsAtBreak(p) ==
    /\ ret.item[1] = SliceTo(ret.self.text, p)
    /\ hw.text = SliceFrom(ret.self.text, p + 1)

\* the step emitted min(width, remaining length) characters and consumed
\* nothing beyond them
CutsAtWidth ==
    LET n == Min(ret.self.width, Len(ret.self.text))
    IN  /\ ret.item[1] = SliceTo(ret.self.text, n)
        /\ hw.text = SliceFrom(ret.self.text, n)

\* the example: "ab\ncd" at width 10 yields exactly "ab" and "cd"
AbCdExample ==
    (Exhausted /\ source = AbCd /\ hw.width = 10) =>
        lines = << <<"a", "b">>, <<"c", "d">> >>

\* C7 (as claimed): a step ends the line at a break only when the break lies
\* before position `width`; in every other case it cuts at the width and
\* consumes nothing beyond the emitted slice.
C7_StepAsClaimed ==
    /\ Stepped =>
          LET p == position(ret.self.text)
          IN  IF p # None /\ p[1] < ret.self.width THEN EndsAtBreak(p[1]) ELSE CutsAtWidth
    /\ AbCdExample

\* C7 (amended): a step ends the line at a break when the break lies at or
\* before position `width` (a break exactly at position `width` follows a full
\* line and is consumed with it); in every other case it cuts at the width and
\* consumes nothing beyond the emitted slice.
C7_StepAmended ==
    /\ Stepped =>
          LET p == position(ret.self.text)
          IN  IF p # None /\ p[1] <= ret.self.width THEN EndsAtBreak(p[1]) ELSE CutsAtWidth
    /\ AbCdExample

\* a full line followed at once by a break: the break went with the line
C7_Witness ==
    /\ Stepped
    /\ ret.self.text = <<"a", "b", NewLine, "a">>
    /\ ret.self.width = 2
    /\ ret.item = Some(<<"a", "b">>)
    /\ hw.text = <<"a">>

\* C13 (as claimed): whatever the text and the target width, a step of the
\* Line Wrapper on a non-empty remainder leaves a strictly shorter remainder,
\* a step on the empty remainder returns end-of-sequence, and Text::new and
\* Text::change_text return.
C13_TerminatesAsClaimed ==
    /\ (ret.op = "next" /\ ret.self.text # <<>>) => Len(hw.text) < Len(ret.self.text)
    /\ (ret.op = "next" /\ ret.self.text = <<>>) => ret.item = None
    /\ ret.op \in {"text", "change_text"} => ret.outcome # "hang"

----------------------------------------------------------------------------
(* Text properties *)

\* the cell of the buffer at column x of row y of the screen
CellAt(x, y) == terminal.buffer[y * terminal.width + x + 1]

\* the widget's frame is in the buffer: the widget has been rendered
FrameDrawn(w) ==
    /\ w.area.width >= 1 /\ w.area.height >= 1
    /\ CellAt(w.area.x, w.area.y).character = TopLeft

IsText(w, text, va, ha) ==
    /\ w.kind = "Text"
    /\ w.text = text
    /\ w.vertical_alignment = va
    /\ w.horizontal_alignment = ha

\* the two Texts of the end-to-end example, on the halves of the 20 x 5 screen,
\* both rendered
ExampleRendered ==
    /\ status = "running"
    /\ Len(widgets) = 2
    /\ \E l, r \in 1..2 :
        /\ IsText(widgets[l], <<"L">>, "Top", "Left")
        /\ widgets[l].area.x = 0 /\ widgets[l].area.width = 10
        /\ IsText(widgets[r], <<"R">>, "Bottom", "Right")
        /\ widgets[r].area.x = 10 /\ widgets[r].area.width = 10
        /\ FrameDrawn(widgets[l]) /\ FrameDrawn(widgets[r])
        /\ CellAt(1, 1).character = "L"

\* C4 (as claimed): on a 20 x 5 screen split horizontally at 0.5, with "L"
\* Left/Top on the left half and "R" Right/Bottom on the right half, both
\* rendered, "L" is at row 1, column 1 and "R" at row 3, column 18.
C4_ExampleAsClaimed ==
    ExampleRendered => (CellAt(1, 1).character = "L" /\ CellAt(18, 3).character = "R")

\* the cells of the area's outermost ring hold the frame's glyphs
BorderIntact(area) ==
    \A x \in 0..(area.width - 1), y \in 0..(area.height - 1) :
        BorderGlyph(area, x, y) # None =>
            CellAt(area.x + x, area.y + y).character = BorderGlyph(area, x, y)[1]

\* C8 (as claimed): rendering a Text in a region with width > 2 and height >= 2
\* completes without failure, whatever the text and the alignments, and writes
\* no text character onto the border.
C8_TextRenderAsClaimed ==
    (/\ ret.op = "render"
     /\ ret.self.kind = "Text"
     /\ ret.self.area.width > 2
     /\ ret.self.area.height >= 2) =>
        /\ ret.outcome = "running"
        /\ BorderIntact(ret.self.area)

\* the wrapped lines a Text shows: the first height - 2 of the Line Wrapper's
ShownLines(w) ==
    take(HardwrappingText_new(w.text, w.area.width - 2), w.area.height - 2)

\* A Text aligned Center horizontally has just been rendered; aligned Top
\* vertically, so that its i-th shown line is on the region's row i.
RenderedCentered ==
    /\ ret.op = "render"
    /\ ret.outcome = "running"
    /\ ret.self.kind = "Text"
    /\ ret.self.horizontal_alignment = "Center"
    /\ ret.self.vertical_alignment = "Top"
    /\ ret.self.area.width > 2
    /\ ret.self.area.height >= 2

\* the characters of the line are in the buffer from column c of row y of the
\* region on, the region's left border being its column 0
LineStartsAt(area, line, c, y) ==
    \A k \in 1..Len(line) :
        CellAt(area.x + c + (k - 1), area.y + y).character = line[k]

\* C11 (as claimed): under Center a wrapped line of length n in a region of
\* inner width I starts at the region's local column (I - n) / 2, so "Hi" in
\* a region of width 12 starts at local column 4.
C11_CenterAsClaimed ==
    RenderedCentered =>
        \A i \in 1..Len(ShownLines(ret.self)) :
            LET line == ShownLines(ret.self)[i]
            IN  LineStartsAt(ret.self.area, line,
                             ((ret.self.area.width - 2) - Len(line)) \div 2, i)

\* C11 (amended): under Center a wrapped line of length n in a region of
\* width W = I + 2 starts at the region's local column (W - n) / 2, which is
\* 1 + (I - n) / 2: (I - n) / 2 columns after the left border's neighbour.
\* "Hi" in a region of width 12 starts at local column 5.
C11_CenterAmended ==
    RenderedCentered =>
        \A i \in 1..Len(ShownLines(ret.self)) :
            LET line == ShownLines(ret.self)[i]
            IN  /\ LineStartsAt(ret.self.area, line,
                                (ret.self.area.width - Len(line)) \div 2, i)
                /\ (ret.self.area.width - Len(line)) \div 2
                       = 1 + ((ret.self.area.width - 2) - Len(line)) \div 2

\* "Hi" rendered Center in a region of width 12: "H" in column 5, "i" in column 6,
\* four blank interior columns on either side
C11_Witness ==
    /\ RenderedCentered
    /\ ret.self.text = <<"H", "i">>
    /\ ret.self.area.width = 12
    /\ ret.self.area.x = 0 /\ ret.self.area.y = 0
    /\ CellAt(4, 1).character = " "
    /\ CellAt(5, 1).character = "H"
    /\ CellAt(6, 1).character = "i"
    /\ CellAt(7, 1).character = " "

----------------------------------------------------------------------------
(* Flush properties *)

\* what the flush rule asks draw to print for the i-th cell of a frame: an
\* escape for each color that differs from the cell before it (from Default
\* for the first cell), then the glyph
CellTokens(frame, i) ==
    LET before == IF i = 1 THEN DefaultCell ELSE frame[i - 1]
    IN  (IF frame[i].foreground_color # before.foreground_color
         THEN <<apply_foreground(frame[i].foreground_color)>> ELSE <<>>)
        \o (IF frame[i].background_color # before.background_color
            THEN <<apply_background(frame[i].background_color)>> ELSE <<>>)
        \o <<frame[i].character>>

IsEscape(token) ==
    token \in {ClearScreen} \cup {apply_foreground(c) : c \in Colors}
                            \cup {apply_background(c) : c \in Colors}

IsGlyph(token) == ~IsEscape(token)

\* C5: draw prints the clear-screen sequence, the Default foreground escape,
\* the Default background escape, and then for each cell in row-major order
\* its glyph, preceded by a foreground (background) escape exactly when the
\* cell's foreground (background) differs from the last one emitted; it prints
\* width * height glyphs, whatever the colors of the first cell.
C5_DrawOutput ==
    ret.op = "draw" =>
        /\ output = <<ClearScreen, apply_foreground("Default"), apply_background("Default")>>
                        \o Flatten([i \in 1..Len(ret.frame) |-> CellTokens(ret.frame, i)])
        /\ Len(SelectSeq(output, IsGlyph)) = terminal.width * terminal.height

\* a frame drawn whose first cell is not in the default foreground, with a
\* highlighted row and runs of cells of one color
C5_Witness ==
    /\ ret.op = "draw"
    /\ ret.frame[1].foreground_color = "Green"
    /\ ret.frame[2].foreground_color = "Green"
    /\ \E i \in 1..Len(ret.frame) : ret.frame[i].background_color = "Cyan"

----------------------------------------------------------------------------
(* Table properties *)

\* the number of columns and the widest item of each column, in characters
ColumnCount(items) ==
    IF items = <<>> THEN 0
    ELSE CHOOSE m \in {Len(items[k]) : k \in 1..Len(items)} :
             \A k \in 1..Len(items) : Len(items[k]) <= m

ColumnWidth(items, i) ==
    LET widths == {Len(items[k][i]) : k \in {r \in 1..Len(items) : i <= Len(items[r])}}
    IN  CHOOSE m \in widths : \A w \in widths : w <= m

\* the columns side by side, one gap between neighbours
BlockWidth(items) ==
    SumSeq([i \in 1..ColumnCount(items) |-> ColumnWidth(items, i)]) + (ColumnCount(items) - 1)

\* C9 (as claimed): every Table that construction accepts has at most
\* height - 2 rows and a block of columns and gaps narrower than width - 2.
C9_TableFitsAsClaimed ==
    (ret.op = "table" /\ ret.outcome = "running") =>
        /\ Len(ret.args) <= ret.area.height - 2
        /\ BlockWidth(ret.args) < ret.area.width - 2

\* A non-empty Table aligned Right or Center has just been rendered.
RenderedTable ==
    /\ ret.op = "render"
    /\ ret.self.kind = "Table"
    /\ ret.self.items # <<>>
    /\ ret.self.horizontal_alignment \in {"Right", "Center"}

\* T: the block total, the column lengths and one gap between neighbours
BlockTotal(table) ==
    SumSeq(table.column_lengths) + (Len(table.column_lengths) - 1)

\* the horizontal offset by the rule ItemList applies to its longest item
OffsetOfBlock(table) ==
    IF table.horizontal_alignment = "Right"
    THEN table.area.width - BlockTotal(table) - 1
    ELSE (table.area.width - BlockTotal(table)) \div 2

\* every character of every item is in the buffer, the block of columns
\* starting at column x_offset of the region
BlockStartsAt(table, x_offset) ==
    \A r \in 1..Len(table.items) :
        \A c \in 1..Len(table.items[r]) :
            \A k \in 1..Len(table.items[r][c]) :
                CellAt(table.area.x + x_offset
                           + SumSeq(SubSeq(table.column_lengths, 1, c - 1)) + (c - 1) + (k - 1),
                       table.area.y + BlockYOffset(table, Len(table.items)) + (r - 1)).character
                    = table.items[r][c][k]

\* C12 (as claimed): rendering a non-empty Table that construction accepted
\* never underflows under Right or Center, and the block of columns, T wide
\* with its gaps, starts at width - T - 1 under Right and at (width - T) / 2
\* under Center.
C12_TableOffsetAsClaimed ==
    RenderedTable =>
        /\ ret.self.selected_row = None => ret.outcome = "running"
        /\ (ret.outcome = "running" /\ BlockTotal(ret.self) < ret.self.area.width - 2) =>
               BlockStartsAt(ret.self, OffsetOfBlock(ret.self))

\* the interior cells of the area are as Terminal::try_new and draw leave them
InteriorUntouched(area) ==
    \A x \in 1..(area.width - 2), y \in 1..(area.height - 2) :
        CellAt(area.x + x, area.y + y) = DefaultCell

\* C14 (as claimed): a Table with zero rows is constructed without failure in
\* any region with height >= 2 and width > 2, and rendering it draws the
\* region's frame and changes no interior cell.
C14_EmptyTableAsClaimed ==
    /\ (/\ ret.op = "table"
        /\ ret.args = <<>>
        /\ ret.area.height >= 2
        /\ ret.area.width > 2) => ret.outcome = "running"
    /\ (/\ ret.op = "render"
        /\ ret.self.kind = "Table"
        /\ ret.self.items = <<>>) =>
            /\ ret.outcome = "running"
            /\ BorderIntact(ret.self.area)
            /\ InteriorUntouched(ret.self.area)

----------------------------------------------------------------------------
(* ItemList properties *)

\* the cell of a buffer at column x of row y of the screen
CellIn(buffer, x, y) == buffer[y * terminal.width + x + 1]

\* the row the list's vertical alignment puts its item i on
ItemRow(list, i) ==
    LET n == Len(list.items)
        h == list.area.height
    IN  i + (CASE list.vertical_alignment = "Top" -> 1
               [] list.vertical_alignment = "Bottom" -> h - 1 - n
               [] list.vertical_alignment = "Center" -> (h - n) \div 2)

\* render has just run on an ItemList whose selected index is one of its items
RenderedSelection(r) ==
    /\ r.op = "render"
    /\ r.self.kind = "ItemList"
    /\ r.self.selected_row # None
    /\ r.self.selected_row[1] < Len(r.self.items)

\* C10: render of an accepted ItemList with a selected index i below the item
\* count paints every interior column 1..width-2 of the row of item i with
\* background Cyan and foreground Black, whatever the length of the item, and
\* gives the highlight to no border cell and to no cell of another row: their
\* background is what it was, the border's foreground is the border color.
C10_SelectedRowHighlighted ==
    [][ RenderedSelection(ret') =>
          LET list == ret'.self
              area == list.area
              row == ItemRow(list, list.selected_row[1])
          IN  /\ ret'.outcome = "running"
              /\ \A x \in 0..(area.width - 1), y \in 0..(area.height - 1) :
                    LET was == CellIn(terminal.buffer, area.x + x, area.y + y)
                        is == CellIn(terminal'.buffer, area.x + x, area.y + y)
                    IN  IF y = row /\ x >= 1 /\ x <= area.width - 2
                        THEN is.background_color = "Cyan" /\ is.foreground_color = "Black"
                        ELSE /\ is.background_color = was.background_color
                             /\ IF BorderGlyph(area, x, y) # None
                                THEN is.foreground_color = area.border_color
                                ELSE is.foreground_color = was.foreground_color
    ]_vars

\* a list of three items, the selected one shorter than the interior, rendered
C10_Witness ==
    /\ ret.op = "render"
    /\ ret.outcome = "running"
    /\ ret.self.kind = "ItemList"
    /\ ret.self.items = <<Str_a, Str_abc, Str_ab>>
    /\ ret.self.selected_row = Some(2)
    /\ ret.self.vertical_alignment = "Center"
    /\ ret.self.horizontal_alignment = "Right"
    /\ CellAt(1, 3).background_color = "Cyan"
    /\ CellAt(4, 3).background_color = "Cyan"
    /\ CellAt(4, 3).character = " "

====
